---- MODULE Spec2Model ----
(***************************************************************************)
(* Event platform backend (src/main.py, src/schemas.py): organizations     *)
(* register and create events, an administrator verifies organizations and *)
(* approves events, the public lists approved events in open / upcoming /  *)
(* closed buckets.                                                         *)
(*                                                                         *)
(* Instants are integers counting microseconds.  Text is a sequence of     *)
(* character codes, compared code by code as Python compares str.          *)
(***************************************************************************)
EXTENDS Integers, Sequences, FiniteSets, TLC

\* ------------------------------------------------------------------ bounds
MaxOrgs == 2
MaxEvents == 2
MaxStored == 2
NumClients == 2

\* ------------------------------------------------------- program constants
DefaultLimit == 100
MinLimit == 1
MaxLimit == 500
OidLen == 24

None == "None"

Min(a, b) == IF a <= b THEN a ELSE b
Max(a, b) == IF a >= b THEN a ELSE b

\* -------------------------------------------------------------------- text
RECURSIVE StrLtFrom(_, _, _)
\* Python's str <, from character i on: the first differing character decides, a
\* proper prefix is smaller.
StrLtFrom(a, b, i) ==
    IF i > Len(b) THEN FALSE
    ELSE IF i > Len(a) THEN TRUE
    ELSE IF a[i] # b[i] THEN a[i] < b[i]
    ELSE StrLtFrom(a, b, i + 1)

StrLt(a, b) == StrLtFrom(a, b, 1)

StrLe(a, b) == a = b \/ StrLt(a, b)

\* One decimal digit as a character.
Digit(d) == 48 + d

\* n written with exactly w digits, zero padded (the %02d / %06d of isoformat).
RECURSIVE Digits(_, _)
Digits(n, w) == IF w = 0 THEN <<>> ELSE Append(Digits(n \div 10, w - 1), Digit(n % 10))

\* ----------------------------------------------------------------- instants
\* The BSON codec keeps whole milliseconds of a datetime (microsecond // 1000);
\* a date comes back from the store as that many milliseconds.
BsonDate(t) == (t \div 1000) * 1000

\* isoformat cut to whole seconds.
IsoFormat_Seconds(t) == Digits(t \div 1000000, 2) \o <<43, 48, 48, 58, 48, 48>>

\* v.astimezone(timezone.utc).isoformat(): the fixed-width date, hour and minute
\* fields are carried by the two-digit seconds field here; the fraction is written
\* only when the microsecond is not zero; the offset is always "+00:00".
IsoFormat(t) ==
    Digits(t \div 1000000, 2)
    \o (IF t % 1000000 = 0 THEN <<>> ELSE <<46>> \o Digits(t % 1000000, 6))
    \o <<43, 48, 48, 58, 48, 48>>

\* -------------------------------------------------------------- identifiers
\* 0-9, a-f, A-F
IsHex(c) == (48 <= c /\ c <= 57) \/ (97 <= c /\ c <= 102) \/ (65 <= c /\ c <= 70)

\* A check of the length alone.
ObjectIdValid_Length(s) == Len(s) = OidLen

\* ObjectId(s) succeeds on a str of 24 hexadecimal characters and raises otherwise.
ObjectIdValid(s) == Len(s) = OidLen /\ \A i \in 1..Len(s) : IsHex(s[i])

\* One hexadecimal digit as a (lower case) character.
HexDigit(d) == IF d < 10 THEN 48 + d ELSE 87 + d

\* str(_id) of the n-th document inserted into a collection: the store generates
\* distinct 24-character hexadecimal identifiers (here a counter in the last three
\* characters behind a fixed prefix).
OidStr(n) ==
    [i \in 1..OidLen |->
        IF i = OidLen THEN HexDigit(n % 16)
        ELSE IF i = OidLen - 1 THEN HexDigit((n \div 16) % 16)
        ELSE IF i = OidLen - 2 THEN HexDigit((n \div 256) % 16)
        ELSE 48]

\* The position of the document whose _id is ObjectId(s), 0 when there is none.
FindById(coll, s) ==
    IF \E i \in 1..Len(coll) : OidStr(i) = s
    THEN CHOOSE i \in 1..Len(coll) : OidStr(i) = s
    ELSE 0

\* ------------------------------------------------------------------- state
VARIABLES
    organization,   \* db["organization"]: the documents in insertion order
    event,          \* db["event"]: the documents in insertion order
    cl,             \* per client: where its request stands between two store calls
    resp            \* the response of the request that completed last

vars == <<organization, event, cl, resp>>

Clients == 1..NumClients

Idle == [pc |-> "idle"]

\* Python truthiness of an optional text: None (here {}) and "" are false.
Truthy(opt) == opt # {} /\ opt # {<<>>}

\* The only element of a one-element set.
The(opt) == CHOOSE x \in opt : TRUE

\* --------------------------------------------------------------- sequences
\* The sequences that list every element of ids exactly once.
Perms(ids) ==
    {p \in [1..Len(ids) -> {ids[i] : i \in 1..Len(ids)}] :
        \A i, j \in 1..Len(ids) : i # j => p[i] # p[j]}

Reverse(s) == [i \in 1..Len(s) |-> s[Len(s) + 1 - i]]

\* cursor.limit(n), n >= 1: the first n documents of the cursor.
CursorLimit(s, n) == SubSeq(s, 1, Min(n, Len(s)))

\* The clamp without its lower end.
ClampLimit_NoFloor(limit) == Min(limit, MaxLimit)

\* min(max(limit, 1), 500)
ClampLimit(limit) == Min(Max(limit, MinLimit), MaxLimit)

\* sorted(): the elements of a finite set of texts in ascending order.
RECURSIVE Sorted(_)
Sorted(S) ==
    IF S = {} THEN <<>>
    ELSE LET m == CHOOSE x \in S : \A y \in S : StrLe(x, y)
         IN <<m>> \o Sorted(S \ {m})

\* ------------------------------------------------------------ GET /events
\* The filter without the approved condition.
Matches_Unapproved(e, category, registration_window, now) ==
    /\ (Truthy(category) => e.category = The(category))
    /\ (registration_window = "open" =>
            /\ e.registration_start <= BsonDate(now)
            /\ e.registration_end >= BsonDate(now))
    /\ (registration_window = "upcoming" => e.registration_start > BsonDate(now))
    /\ (registration_window = "closed" => e.registration_end < BsonDate(now))

\* The filter q of list_events as the store evaluates it: dates are compared as
\* BSON dates, so the instant now enters the query in whole milliseconds.
Matches(e, category, registration_window, now) ==
    /\ e.approved = TRUE
    /\ (Truthy(category) => e.category = The(category))
    /\ (registration_window = "open" =>
            /\ e.registration_start <= BsonDate(now)
            /\ e.registration_end >= BsonDate(now))
    /\ (registration_window = "upcoming" => e.registration_start > BsonDate(now))
    /\ (registration_window = "closed" => e.registration_end < BsonDate(now))

\* db["event"].find(q): the positions of the matching documents, in natural order.
Find(category, registration_window, now) ==
    LET Test(i) == Matches(event[i], category, registration_window, now)
    IN SelectSeq([i \in 1..Len(event) |-> i], Test)

\* A sort by registration_start alone.
TimeLe_NoTie(a, b) == a.registration_start <= b.registration_start

\* The sort key [("registration_start", 1), ("event_start", 1)].
TimeLe(a, b) ==
    \/ a.registration_start < b.registration_start
    \/ /\ a.registration_start = b.registration_start
       /\ a.event_start <= b.event_start

\* cursor.sort(...): the orders the store may return.  Documents with equal keys
\* come in an order the store does not fix; created_at grows with the insertion
\* position; with no sort the cursor keeps the natural order.
SortOrders(ids, sort) ==
    IF sort = "time"
    THEN {p \in Perms(ids) :
            \A i, j \in 1..Len(ids) : i < j => TimeLe(event[p[i]], event[p[j]])}
    ELSE IF sort = "recent" THEN {Reverse(ids)}
    ELSE {ids}

\* serialize_doc: _id becomes the text id, every datetime its ISO-8601 UTC text.
SerializeDoc(i) ==
    [id |-> OidStr(i),
     registration_start |-> IsoFormat(event[i].registration_start),
     registration_end |-> IsoFormat(event[i].registration_end),
     event_start |-> IsoFormat(event[i].event_start),
     category |-> event[i].category,
     approved |-> event[i].approved]

\* The three list comprehensions of list_events: texts compared with now.isoformat().
\* nowiso is now.isoformat().
IsOpen(d, nowiso) ==
    /\ StrLe(d.registration_start, nowiso)
    /\ StrLe(nowiso, d.registration_end)

IsUpcoming(d, nowiso) == StrLt(nowiso, d.registration_start)

IsClosed(d, nowiso) == StrLt(d.registration_end, nowiso)

\* limit: int = 100
LimitArg(limit) == IF limit = {} THEN DefaultLimit ELSE The(limit)

list_events(category, sort, registration_window, limit, now) ==
    \E sorted \in SortOrders(Find(category, registration_window, now), sort) :
        LET lim == CursorLimit(sorted, ClampLimit(LimitArg(limit)))
            docs == [k \in 1..Len(lim) |-> SerializeDoc(lim[k])]
            nowiso == IsoFormat(now)
            Open(d) == IsOpen(d, nowiso)
            Upcoming(d) == IsUpcoming(d, nowiso)
            Closed(d) == IsClosed(d, nowiso)
        IN /\ resp' = [op |-> "list_events", status |-> 200,
                       category |-> category, sort |-> sort,
                       registration_window |-> registration_window,
                       limit |-> limit, now |-> now, docs |-> docs,
                       open |-> SelectSeq(docs, Open),
                       upcoming |-> SelectSeq(docs, Upcoming),
                       closed |-> SelectSeq(docs, Closed),
                       count |-> Len(docs)]
           /\ UNCHANGED <<organization, event, cl>>

\* ------------------------------------------------- GET /events/categories
\* distinct("category") over every event.
Distinct_All == {event[i].category : i \in 1..Len(event)}

\* db["event"].distinct("category", {"approved": True})
Distinct == {event[i].category : i \in {j \in 1..Len(event) : event[j].approved = TRUE}}

list_categories ==
    /\ resp' = [op |-> "list_categories", status |-> 200,
                categories |-> Sorted({c \in Distinct : c # <<>>})]
    /\ UNCHANGED <<organization, event, cl>>

\* ------------------------------------------------- POST /auth/org/register
\* Requests in flight that will still insert into a collection.
InFlight(pcs) == Cardinality({p \in Clients : cl[p].pc \in pcs})

\* db["organization"].find_one({"email": payload.email}); 400 when it finds one.
org_register_find(p, email) ==
    /\ cl[p].pc = "idle"
    /\ Len(organization) + InFlight({"org_register_insert"}) < MaxOrgs
    /\ IF \E i \in 1..Len(organization) : organization[i].email = email
       THEN /\ resp' = [op |-> "org_register", status |-> 400]
            /\ UNCHANGED cl
       ELSE /\ cl' = [cl EXCEPT ![p] = [pc |-> "org_register_insert", email |-> email]]
            /\ UNCHANGED resp
    /\ UNCHANGED <<organization, event>>

\* create_document("organization", org) with verified=False, then the 200 answer.
org_register_insert(p) ==
    /\ cl[p].pc = "org_register_insert"
    /\ organization' = Append(organization, [email |-> cl[p].email, verified |-> FALSE])
    /\ resp' = [op |-> "org_register", status |-> 200,
                id |-> OidStr(Len(organization) + 1), verified |-> FALSE]
    /\ cl' = [cl EXCEPT ![p] = Idle]
    /\ UNCHANGED event

\* A verification that also rewrites the snapshot of the organization's events.
verify_organization_Sync(org_id, verified) ==
    /\ ObjectIdValid(org_id)
    /\ FindById(organization, org_id) # 0
    /\ organization' =
            [organization EXCEPT ![FindById(organization, org_id)].verified = verified]
    /\ event' = [i \in 1..Len(event) |->
                    IF event[i].organization_id = org_id
                    THEN [event[i] EXCEPT !.is_org_verified = verified]
                    ELSE event[i]]
    /\ resp' = [op |-> "verify_organization", status |-> 200]
    /\ UNCHANGED cl

\* ------------------------------------------ POST /admin/verify-organization
verify_organization(org_id, verified) ==
    /\ IF ~ObjectIdValid(org_id)
       THEN /\ resp' = [op |-> "verify_organization", status |-> 400]
            /\ UNCHANGED organization
       ELSE LET i == FindById(organization, org_id)
            IN IF i = 0
               THEN /\ resp' = [op |-> "verify_organization", status |-> 404]
                    /\ UNCHANGED organization
               ELSE /\ organization' = [organization EXCEPT ![i].verified = verified]
                    /\ resp' = [op |-> "verify_organization", status |-> 200]
    /\ UNCHANGED <<event, cl>>

\* ------------------------------------------------------------ POST /events
\* ObjectId(token) and find_one({"_id": org_oid}); 401 when either fails; otherwise
\* the request holds org["_id"] and org.get("verified", False).
create_event_find(p, payload, organization_token) ==
    /\ cl[p].pc = "idle"
    /\ Len(event) + InFlight({"create_event_insert"}) < MaxEvents
    /\ LET i == IF ObjectIdValid(organization_token)
                THEN FindById(organization, organization_token) ELSE 0
       IN IF i = 0
          THEN /\ resp' = [op |-> "create_event", status |-> 401]
               /\ UNCHANGED cl
          ELSE /\ cl' = [cl EXCEPT ![p] =
                            [pc |-> "create_event_insert", payload |-> payload,
                             organization_id |-> OidStr(i),
                             is_verified |-> organization[i].verified]]
               /\ UNCHANGED resp
    /\ UNCHANGED <<organization, event>>

\* A creation that names an approver for the automatically approved event.
create_event_insert_Stamped(p) ==
    /\ cl[p].pc = "create_event_insert"
    /\ event' = Append(event,
            [registration_start |-> BsonDate(cl[p].payload.registration_start),
             registration_end |-> BsonDate(cl[p].payload.registration_end),
             event_start |-> BsonDate(cl[p].payload.event_start),
             category |-> cl[p].payload.category,
             organization_id |-> cl[p].organization_id,
             approved |-> cl[p].is_verified,
             approved_by |-> IF cl[p].is_verified THEN "admin" ELSE None,
             is_org_verified |-> cl[p].is_verified])
    /\ resp' = [op |-> "create_event", status |-> 200,
                id |-> OidStr(Len(event) + 1), approved |-> cl[p].is_verified]
    /\ cl' = [cl EXCEPT ![p] = Idle]
    /\ UNCHANGED organization

\* Event(...) and create_document("event", event): the store keeps the dates as
\* BSON dates.
create_event_insert(p) ==
    /\ cl[p].pc = "create_event_insert"
    /\ event' = Append(event,
            [registration_start |-> BsonDate(cl[p].payload.registration_start),
             registration_end |-> BsonDate(cl[p].payload.registration_end),
             event_start |-> BsonDate(cl[p].payload.event_start),
             category |-> cl[p].payload.category,
             organization_id |-> cl[p].organization_id,
             approved |-> cl[p].is_verified,
             approved_by |-> None,
             is_org_verified |-> cl[p].is_verified])
    /\ resp' = [op |-> "create_event", status |-> 200,
                id |-> OidStr(Len(event) + 1), approved |-> cl[p].is_verified]
    /\ cl' = [cl EXCEPT ![p] = Idle]
    /\ UNCHANGED organization

\* ------------------------------------------------ POST /admin/approve-event
approve_event(event_id, approve) ==
    /\ IF ~ObjectIdValid(event_id)
       THEN /\ resp' = [op |-> "approve_event", status |-> 400]
            /\ UNCHANGED event
       ELSE LET i == FindById(event, event_id)
            IN IF i = 0
               THEN /\ resp' = [op |-> "approve_event", status |-> 404]
                    /\ UNCHANGED event
               ELSE /\ event' = [event EXCEPT ![i].approved = approve,
                                              ![i].approved_by = "admin"]
                    /\ resp' = [op |-> "approve_event", status |-> 200]
    /\ UNCHANGED <<organization, cl>>

\* ------------------------------------------------------------------ inputs
Emails == {"a@x.org", "b@x.org"}

\* "not-a-valid-id", and 24 characters of which the last is "g".
MalformedIds ==
    {<<110, 111, 116, 45, 97, 45, 118, 97, 108, 105, 100, 45, 105, 100>>,
     [i \in 1..OidLen |-> IF i = OidLen THEN 103 ELSE 48]}

OrgIds == MalformedIds \cup {OidStr(i) : i \in 1..(MaxOrgs + 1)}

\* Tokens of event creation: malformed, the first organization's, and one no
\* organization has.
Tokens == MalformedIds \cup {OidStr(1), OidStr(MaxOrgs + 1)}

EventIds == MalformedIds \cup {OidStr(i) : i \in 1..(MaxEvents + 1)}

\* Event payloads (instants in microseconds): a window that ends on a whole
\* millisecond, two windows that start together and differ in event_start, one
\* of them given with sub-millisecond digits, and a window that ends before it
\* starts.
P1 == [registration_start |-> 0, registration_end |-> 1000,
       event_start |-> 1000000, category |-> <<97>>]
P2 == [registration_start |-> 1000, registration_end |-> 1000000,
       event_start |-> 2000, category |-> <<98>>]
P3 == [registration_start |-> 1700, registration_end |-> 1000000,
       event_start |-> 1000, category |-> <<97>>]
P4 == [registration_start |-> 1000000, registration_end |-> 0,
       event_start |-> 0, category |-> <<>>]

Payloads == {P1, P2, P3, P4}

Nows == {0, 1000, 1500, 1000000}

\* The event documents a payload leaves in the store once an administrator of an
\* unverified organization's event has or has not approved it.
StoredEvent(payload, approved) ==
    [registration_start |-> BsonDate(payload.registration_start),
     registration_end |-> BsonDate(payload.registration_end),
     event_start |-> BsonDate(payload.event_start),
     category |-> payload.category,
     organization_id |-> OidStr(1),
     approved |-> approved,
     approved_by |-> IF approved THEN "admin" ELSE None,
     is_org_verified |-> FALSE]

StoredEvents ==
    {StoredEvent(payload, TRUE) : payload \in Payloads}
        \cup {StoredEvent(payload, FALSE) : payload \in {P1, P2}}

SeqsUpTo(S, n) == UNION {[1..k -> S] : k \in 0..n}

\* Store sizes around the default limit and the upper clamp.
Sizes ==
    {0, 1, 2, DefaultLimit, DefaultLimit + 1, MaxLimit - 1, MaxLimit, MaxLimit + 1}

Limits == {{}, {-3}, {0}, {1}, {2}, {MaxLimit - 1}, {MaxLimit}, {MaxLimit + 1}, {10000}}

\* ------------------------------------------------------------ specification
Init ==
    /\ organization = <<>>
    /\ event = <<>>
    /\ cl = [p \in Clients |-> Idle]
    /\ resp = [op |-> "none", status |-> 0]

\* One client at a time; the administrator's and the public's requests are single
\* store calls and come at any moment, also between a client's two store calls.
Next ==
    \/ \E email \in Emails : org_register_find(1, email)
    \/ org_register_insert(1)
    \/ \E i \in 1..MaxOrgs, verified \in BOOLEAN :
            verify_organization(OidStr(i), verified)
    \/ \E token \in Tokens : create_event_find(1, P3, token)
    \/ create_event_insert(1)
    \/ \E i \in 1..MaxEvents, approve \in BOOLEAN : approve_event(OidStr(i), approve)
    \/ list_events({}, "time", None, {}, 1500)

Spec == Init /\ [][Next]_vars

\* Concurrent registrations: every client's two store calls interleave with the
\* other clients'.
NextReg ==
    \/ \E p \in Clients, email \in Emails : org_register_find(p, email)
    \/ \E p \in Clients : org_register_insert(p)
    \/ \E id \in OrgIds, verified \in BOOLEAN : verify_organization(id, verified)

SpecReg == Init /\ [][NextReg]_vars

\* The administrator's requests with every identifier, over the organization and
\* the events one client creates.
NextIds ==
    \/ org_register_find(1, "a@x.org")
    \/ org_register_insert(1)
    \/ \E id \in OrgIds, verified \in BOOLEAN : verify_organization(id, verified)
    \/ create_event_find(1, P3, OidStr(1))
    \/ create_event_insert(1)
    \/ \E id \in EventIds, approve \in BOOLEAN : approve_event(id, approve)

SpecIds == Init /\ [][NextIds]_vars

\* The public queries over a store of events of one unverified organization.
InitList ==
    /\ organization = <<[email |-> "a@x.org", verified |-> FALSE]>>
    /\ event \in SeqsUpTo(StoredEvents, MaxStored)
    /\ cl = [p \in Clients |-> Idle]
    /\ resp = [op |-> "none", status |-> 0]

NextList ==
    \/ \E registration_window \in {None, "open", "upcoming", "closed"}, now \in Nows :
            list_events({}, "time", registration_window, {}, now)
    \/ \E sort \in {"time", "recent", "name"}, limit \in {{0}, {2}} :
            list_events({}, sort, "all", limit, 1500)
    \/ \E category \in {{<<>>}, {<<97>>}} :
            list_events(category, "time", "upcoming", {1}, 0)
    \/ list_categories

SpecList == InitList /\ [][NextList]_vars

\* The limit of a query over stores of many events, in natural order.
InitLimit ==
    /\ organization = <<[email |-> "a@x.org", verified |-> FALSE]>>
    /\ \E n \in Sizes, m \in 0..1 :
            event = [i \in 1..(n + m) |-> StoredEvent(P2, i <= n)]
    /\ cl = [p \in Clients |-> Idle]
    /\ resp = [op |-> "none", status |-> 0]

NextLimit ==
    \E limit \in Limits : list_events({}, "none", None, limit, 1500)

SpecLimit == InitLimit /\ [][NextLimit]_vars

\* ------------------------------------------------------------------ claims
\* The events of a bucket, as positions in the store.
Listed(bucket) == {FindById(event, bucket[k].id) : k \in 1..Len(bucket)}

ListedAnywhere == Listed(resp.open) \cup Listed(resp.upcoming) \cup Listed(resp.closed)

IsList == resp.op = "list_events"

\* C1: every event a list_events response holds in its open, upcoming or closed
\* bucket is a stored event that is approved at that moment; an event of an
\* unverified organization that no approve_event call has touched, and an event
\* whose approval was withdrawn, is in no bucket.
C1_ListedAreApproved ==
    IsList =>
        /\ \A i \in ListedAnywhere : i \in 1..Len(event) /\ event[i].approved = TRUE
        /\ \A i \in 1..Len(event) :
                (event[i].is_org_verified = FALSE /\ event[i].approved_by = None)
                    => i \notin ListedAnywhere
        /\ \A i \in 1..Len(event) : event[i].approved = FALSE => i \notin ListedAnywhere

\* An approved event of an unverified organization is listed while another event of
\* the store, not approved, is not.
C1_Witness ==
    /\ IsList
    /\ \E i \in ListedAnywhere :
            event[i].is_org_verified = FALSE /\ event[i].approved_by = "admin"
    /\ \E i \in 1..Len(event) : event[i].approved = FALSE /\ i \notin ListedAnywhere

\* C2: for every candidate of a list_events response and the instant now of that
\* request, the event is in the open bucket iff registration_start <= now <=
\* registration_end, in upcoming iff registration_start > now, in closed iff
\* registration_end < now, whatever the registration_window of the request.
C2_BucketsFollowInstants ==
    IsList =>
        \A k \in 1..Len(resp.docs) :
            LET i == FindById(event, resp.docs[k].id)
                e == event[i]
            IN /\ i \in 1..Len(event)
               /\ (i \in Listed(resp.open)) <=>
                    (e.registration_start <= resp.now /\ resp.now <= e.registration_end)
               /\ (i \in Listed(resp.upcoming)) <=> (e.registration_start > resp.now)
               /\ (i \in Listed(resp.closed)) <=> (e.registration_end < resp.now)

\* A response with an open event, and one event both upcoming and closed, at an
\* instant with a sub-millisecond part.
C2_Witness ==
    /\ IsList
    /\ resp.now % 1000 # 0
    /\ Listed(resp.open) # {}
    /\ Listed(resp.upcoming) \cap Listed(resp.closed) # {}

\* The positions of the candidates of a response, in the order of the cursor.
Candidates == [k \in 1..Len(resp.docs) |-> FindById(event, resp.docs[k].id)]

Approved == {i \in 1..Len(event) : event[i].approved = TRUE}

\* C3: over the approved events (no category, no registration_window), count is
\* min(M, min(max(limit, 1), 500)) with M the number of approved events and an
\* unspecified limit taken as 100: at most 500 for limit = 10000, exactly 1 for
\* limit <= 0 when there is an approved event; count is the number of candidates.
C3_CountIsClampedLimit ==
    (IsList /\ resp.category = {} /\ resp.registration_window = None) =>
        LET M == Cardinality(Approved)
        IN /\ resp.count = Len(resp.docs)
           /\ resp.limit = {} => resp.count = Min(M, 100)
           /\ resp.limit # {} =>
                resp.count = Min(M, Min(Max(The(resp.limit), 1), 500))
           /\ resp.limit = {10000} => resp.count <= 500
           /\ (resp.limit # {} /\ The(resp.limit) <= 0 /\ M >= 1) => resp.count = 1

\* limit = 10000 over 501 approved events gives 500 candidates.
C3_Witness ==
    /\ IsList
    /\ resp.limit = {10000}
    /\ Cardinality(Approved) = 501
    /\ resp.count = 500

\* k is before l: ascending registration_start, ties ascending event_start.
KeyLe(i, j) ==
    \/ event[i].registration_start < event[j].registration_start
    \/ /\ event[i].registration_start = event[j].registration_start
       /\ event[i].event_start <= event[j].event_start

\* The place of a document in the candidates.
PlaceOf(d) == CHOOSE k \in 1..Len(resp.docs) : resp.docs[k] = d

InOrder(bucket) ==
    /\ \A k \in 1..Len(bucket) : \E l \in 1..Len(resp.docs) : resp.docs[l] = bucket[k]
    /\ \A k, l \in 1..Len(bucket) : k < l => PlaceOf(bucket[k]) < PlaceOf(bucket[l])

\* C4: with sort = "time" the candidates are the first min(max(limit, 1), 500)
\* filtered events in ascending (registration_start, event_start) order, every
\* bucket lists its events in that order, and registration_window=upcoming with
\* limit=1 over two or more future events returns the one with the earliest
\* registration_start alone, in the upcoming bucket, with count = 1.
C4_LimitAfterTimeSort ==
    (IsList /\ resp.sort = "time") =>
        LET F == Find(resp.category, resp.registration_window, resp.now)
            filtered == {F[k] : k \in 1..Len(F)}
            n == IF resp.limit = {} THEN 100 ELSE Min(Max(The(resp.limit), 1), 500)
            D == Candidates
            taken == {D[k] : k \in 1..Len(D)}
        IN /\ Len(D) = Min(Len(F), n)
           /\ taken \subseteq filtered
           /\ Cardinality(taken) = Len(D)
           /\ \A k, l \in 1..Len(D) : k < l => KeyLe(D[k], D[l])
           /\ \A i \in filtered \ taken : \A k \in 1..Len(D) : KeyLe(D[k], i)
           /\ InOrder(resp.open) /\ InOrder(resp.upcoming) /\ InOrder(resp.closed)
           /\ (resp.registration_window = "upcoming" /\ resp.limit = {1} /\ Len(F) >= 2) =>
                /\ resp.count = 1
                /\ resp.upcoming = resp.docs
                /\ resp.open = <<>>
                /\ \A i \in filtered :
                        event[D[1]].registration_start <= event[i].registration_start

\* registration_window=upcoming and limit=1 over two approved future events that
\* start registration together: the one with the earlier event_start is returned.
C4_Witness ==
    /\ IsList /\ resp.sort = "time"
    /\ resp.registration_window = "upcoming" /\ resp.limit = {1}
    /\ Len(Find(resp.category, resp.registration_window, resp.now)) = 2
    /\ resp.count = 1
    /\ Len(resp.upcoming) = 1
    /\ \E i \in 1..Len(event) :
            /\ i # Candidates[1]
            /\ event[i].approved = TRUE
            /\ event[i].registration_start = event[Candidates[1]].registration_start
            /\ event[i].event_start > event[Candidates[1]].event_start

\* C9: list_categories returns, ascending and without duplicates, exactly the
\* non-empty categories of the events approved at that moment.
C9_CategoriesOfApproved ==
    resp.op = "list_categories" =>
        LET c == resp.categories
        IN /\ \A k \in 1..(Len(c) - 1) : StrLt(c[k], c[k + 1])
           /\ \A k \in 1..Len(c) : c[k] # <<>>
           /\ {c[k] : k \in 1..Len(c)} =
                {event[i].category : i \in Approved} \ {<<>>}

\* One category is returned while an unapproved event carries another one and an
\* approved event carries the empty one.
C9_Witness ==
    /\ resp.op = "list_categories"
    /\ Len(resp.categories) = 1
    /\ \E i \in 1..Len(event) :
            /\ event[i].approved = FALSE
            /\ event[i].category # <<>>
            /\ \A k \in 1..Len(resp.categories) : resp.categories[k] # event[i].category

\* C10: every candidate is in at least one bucket, so the bucket sizes sum to at
\* least count; an event is in more than one bucket only when registration_end <
\* now < registration_start, and then in upcoming and closed; open shares no event
\* with upcoming or closed; a request with registration_window=open returns empty
\* upcoming and closed buckets.
C10_BucketsOfOpenQuery ==
    IsList =>
        /\ \A k \in 1..Len(resp.docs) : Candidates[k] \in ListedAnywhere
        /\ Len(resp.open) + Len(resp.upcoming) + Len(resp.closed) >= resp.count
        /\ \A i \in Listed(resp.upcoming) \cap Listed(resp.closed) :
                event[i].registration_end < resp.now /\ resp.now < event[i].registration_start
        /\ Listed(resp.open) \cap (Listed(resp.upcoming) \cup Listed(resp.closed)) = {}
        /\ resp.registration_window = "open" =>
                resp.upcoming = <<>> /\ resp.closed = <<>>

\* C8: no two organization records have the same email.
C8_EmailsUnique ==
    \A i, j \in 1..Len(organization) :
        i # j => organization[i].email # organization[j].email

\* C5: create_event stores one new event whose approved and is_org_verified are the
\* organization's verified flag as the request read it and whose approved_by is
\* null; approved_by of an event leaves null only in a step that answers a
\* successful approve_event, and until then approved equals is_org_verified.
C5_CreationSnapshot ==
    [][/\ \A p \in Clients :
            (cl[p].pc = "idle" /\ cl'[p].pc = "create_event_insert") =>
                \E i \in 1..Len(organization) :
                    /\ cl'[p].organization_id = OidStr(i)
                    /\ cl'[p].is_verified = organization[i].verified
       /\ \A p \in Clients :
            (cl[p].pc = "create_event_insert" /\ cl'[p].pc = "idle") =>
                /\ Len(event') = Len(event) + 1
                /\ event'[Len(event')].approved = cl[p].is_verified
                /\ event'[Len(event')].is_org_verified = cl[p].is_verified
                /\ event'[Len(event')].approved_by = None
                /\ resp'.op = "create_event" /\ resp'.approved = cl[p].is_verified
       /\ \A i \in 1..Len(event) :
            (event[i].approved_by = None /\ event'[i].approved_by # None) =>
                resp'.op = "approve_event" /\ resp'.status = 200
       /\ \A i \in 1..Len(event) :
            event[i].approved_by = None => event[i].approved = event[i].is_org_verified
      ]_vars

\* An event of an unverified organization waits for approval beside an event of a
\* verified organization that is approved with approved_by null.
C5_Witness ==
    \E i, j \in 1..Len(event) :
        /\ event[i].approved = FALSE /\ event[i].is_org_verified = FALSE
        /\ event[i].approved_by = None
        /\ event[j].approved = TRUE /\ event[j].is_org_verified = TRUE
        /\ event[j].approved_by = None

\* C6: a step that rewrites a stored event answers a successful approve_event,
\* changes approved and approved_by of one event only and leaves every
\* organization as it was; a step that rewrites a stored organization answers a
\* successful verify_organization, changes the verified flag of one organization
\* only and leaves every event as it was.
C6_Frames ==
    [][/\ (Len(event') = Len(event) /\ event' # event) =>
            /\ resp'.op = "approve_event" /\ resp'.status = 200
            /\ organization' = organization
            /\ \E i \in 1..Len(event) :
                /\ \A j \in 1..Len(event) : j # i => event'[j] = event[j]
                /\ event'[i] = [event[i] EXCEPT !.approved = event'[i].approved,
                                                !.approved_by = event'[i].approved_by]
       /\ (resp'.op = "approve_event" /\ resp' # resp) =>
            /\ organization' = organization
            /\ Len(event') = Len(event)
            /\ \A i \in 1..Len(event) :
                    event'[i].is_org_verified = event[i].is_org_verified
       /\ (Len(organization') = Len(organization) /\ organization' # organization) =>
            /\ resp'.op = "verify_organization" /\ resp'.status = 200
            /\ event' = event
            /\ \E i \in 1..Len(organization) :
                /\ \A j \in 1..Len(organization) :
                        j # i => organization'[j] = organization[j]
                /\ organization'[i] =
                        [organization[i] EXCEPT !.verified = organization'[i].verified]
       /\ (resp'.op = "verify_organization" /\ resp' # resp) => event' = event
      ]_vars

\* After a verification an event still carries the flags of its creation: its
\* organization is verified now, the event is neither approved nor marked as of a
\* verified organization, and a second organization and a second event exist.
C6_Witness ==
    /\ resp.op = "verify_organization" /\ resp.status = 200
    /\ Len(organization) = 2 /\ Len(event) = 2
    /\ \E i \in 1..Len(event) :
            /\ event[i].is_org_verified = FALSE /\ event[i].approved = FALSE
            /\ organization[FindById(organization, event[i].organization_id)].verified
                    = TRUE
    /\ \E i \in 1..Len(event) : event[i].approved_by = "admin"

Store == <<organization, event>>

\* C7: verify_organization and approve_event answer 400 to a malformed identifier,
\* 404 to a well-formed identifier no record has and 200 to the identifier of a
\* record; with 400 and 404 the organizations and events stay as they were.
C7_InvalidIdOrNotFound ==
    [][/\ (resp'.op = "verify_organization" /\ cl' = cl /\ event' = event) =>
            \A id \in OrgIds, verified \in BOOLEAN :
                verify_organization(id, verified) =>
                    /\ id \in MalformedIds => resp'.status = 400
                    /\ (id \notin MalformedIds
                            /\ id \notin {OidStr(i) : i \in 1..Len(organization)})
                            => resp'.status = 404
                    /\ id \in {OidStr(i) : i \in 1..Len(organization)}
                            => resp'.status = 200
                    /\ resp'.status \in {400, 404} => Store' = Store
       /\ (resp'.op = "approve_event" /\ cl' = cl /\ organization' = organization) =>
            \A id \in EventIds, approve \in BOOLEAN :
                approve_event(id, approve) =>
                    /\ id \in MalformedIds => resp'.status = 400
                    /\ (id \notin MalformedIds
                            /\ id \notin {OidStr(i) : i \in 1..Len(event)})
                            => resp'.status = 404
                    /\ id \in {OidStr(i) : i \in 1..Len(event)} => resp'.status = 200
                    /\ resp'.status \in {400, 404} => Store' = Store
      ]_vars

\* approve_event has answered 404 over a store that holds an organization and an
\* event.
C7_Witness ==
    /\ resp.op = "approve_event" /\ resp.status = 404
    /\ Len(organization) >= 1 /\ Len(event) >= 1

====
